---- MODULE Spec2Model ----
(***************************************************************************)
(* Model of the "teams team set" command                                   *)
(* (src/o365/teams/commands/team/team-set.ts, class TeamsSetCommand).      *)
(*                                                                         *)
(* One behaviour is one invocation: the command framework hands the parsed *)
(* option bag to validate(); when validate() returns true it runs the      *)
(* command's action, which records telemetry, normalises the bag and calls *)
(* GroupUpdateService.updateGroup; the service then completes once.        *)
(*                                                                         *)
(* The option bag is a record over the keys the command reads or declares. *)
(* An option that was not supplied holds Undefined.  The bag carries both  *)
(* "teamId" (the flag declared by options()) and "id" (the field of the    *)
(* service's Options type that validate() reads).  owners and members are  *)
(* forwarded untouched and never read by this file; they are left out.     *)
(***************************************************************************)
EXTENDS Naturals, Sequences, FiniteSets, TLC

VARIABLES
    input,          \* the option bag as the caller supplied it (never written)
    options,        \* args.options, the bag the command reads and mutates
    fs,             \* the filesystem: absolute path -> "none" | "file" | "dir"
    debug,          \* this.debug
    pc,             \* position of the invocation
    result,         \* what validate() returned
    telemetry,      \* what getTelemetryProperties() returned, in a sequence
    serviceCalls,   \* the option bags passed to GroupUpdateService.updateGroup
    outcome         \* which callback the service invoked

vars == <<input, options, fs, debug, pc, result, telemetry, serviceCalls, outcome>>

----------------------------------------------------------------------------
(* Values *)

Undefined == "<undefined>"

Guid == "00000000-0000-0000-0000-000000000000"

ValidGuids == {Guid}

IdValues == {Undefined, "", "abc", Guid}

TeamIdValues == {Undefined, "abc", Guid}

VisibilityValues == {Undefined, "", "Private", "private", "PUBLIC", "Public", "secret"}

IsPrivateValues == {Undefined, "", "true", "false", "True", "1", "Private"}

Cwd == "/cwd"

LogoFile == "images/logo.png"

LogoPathValues == {Undefined, "", LogoFile}

FileKinds == {"none", "file", "dir"}

DisplayNameValues == {Undefined, "", "Team"}

TextValues == {Undefined, "x"}

ClassificationValues == {Undefined, "MBI"}

\* TeamsSetCommand.props
props == <<"displayName", "description", "mailNickName", "classification", "visibility", "isPrivate">>

PropNames == {props[i] : i \in DOMAIN props}

----------------------------------------------------------------------------
(* Library functions the command calls *)

\* String.prototype.toLowerCase on the strings of the model
ToLowerCase(s) ==
    CASE s = "Private" -> "private"
      [] s = "PUBLIC"  -> "public"
      [] s = "Public"  -> "public"
      [] s = "True"    -> "true"
      [] s = "MBI"     -> "mbi"
      [] s = "Team"    -> "team"
      [] OTHER         -> s

\* Utils.isValidGuid
IsValidGuid(s) == s \in ValidGuids

\* path.resolve of a relative path: the empty path resolves to the working directory
Resolve(p) == IF p = "" THEN Cwd ELSE Cwd \o "/" \o p

\* fs.existsSync
ExistsSync(f, p) == f[p] # "none"

\* fs.lstatSync(p).isDirectory()
IsDirectory(f, p) == f[p] = "dir"

\* JavaScript truthiness of an optional string
Truthy(v) == v # Undefined /\ v # ""

----------------------------------------------------------------------------
(* validate() *)

\* validate returns either true or a message
Ok == [kind |-> "true"]

Err(m) == [kind |-> "message", text |-> m]

Pending == [kind |-> "pending"]

MissingMsg == "Required parameter teamId missing"

GuidMsg(v) == v \o " is not a valid GUID"

VisibilityMsg(v) == v \o " is not a valid visibility type. Allowed values are Private|Public"

BooleanMsg(v) == v \o " is not a valid boolean value"

NotFoundMsg(p) == "File '" \o p \o "' not found"

DirectoryMsg(p) == "Path '" \o p \o "' points to a directory"

\* validate() without its directory test
validateNoDirectoryTest(o, f) ==
    IF ~Truthy(o.id) THEN Err(MissingMsg)
    ELSE IF ~IsValidGuid(o.id) THEN Err(GuidMsg(o.id))
    ELSE IF /\ Truthy(o.visibility)
            /\ ToLowerCase(o.visibility) # "private"
            /\ ToLowerCase(o.visibility) # "public"
         THEN Err(VisibilityMsg(o.visibility))
    ELSE IF /\ o.isPrivate # Undefined
            /\ o.isPrivate # "true"
            /\ o.isPrivate # "false"
         THEN Err(BooleanMsg(o.isPrivate))
    ELSE IF Truthy(o.logoPath)
         THEN LET fullPath == Resolve(o.logoPath)
              IN  IF ~ExistsSync(f, fullPath) THEN Err(NotFoundMsg(fullPath))
                  ELSE Ok
    ELSE Ok

validate(o, f) ==
    IF ~Truthy(o.id) THEN Err(MissingMsg)
    ELSE IF ~IsValidGuid(o.id) THEN Err(GuidMsg(o.id))
    ELSE IF /\ Truthy(o.visibility)
            /\ ToLowerCase(o.visibility) # "private"
            /\ ToLowerCase(o.visibility) # "public"
         THEN Err(VisibilityMsg(o.visibility))
    ELSE IF /\ o.isPrivate # Undefined
            /\ o.isPrivate # "true"
            /\ o.isPrivate # "false"
         THEN Err(BooleanMsg(o.isPrivate))
    ELSE IF Truthy(o.logoPath)
         THEN LET fullPath == Resolve(o.logoPath)
              IN  IF ~ExistsSync(f, fullPath) THEN Err(NotFoundMsg(fullPath))
                  ELSE IF IsDirectory(f, fullPath) THEN Err(DirectoryMsg(fullPath))
                  ELSE Ok
    ELSE Ok

----------------------------------------------------------------------------
(* Initial state: a parsed option bag, a filesystem, nothing run yet *)

OptionBags ==
    [ id             : IdValues,
      teamId         : TeamIdValues,
      displayName    : DisplayNameValues,
      description    : TextValues,
      mailNickName   : TextValues,
      classification : ClassificationValues,
      visibility     : VisibilityValues,
      isPrivate      : IsPrivateValues,
      logoPath       : LogoPathValues ]

\* the working directory is a directory; the logo path may be anything
FileSystems == { [p \in {Cwd, Resolve(LogoFile)} |-> IF p = Cwd THEN "dir" ELSE k] : k \in FileKinds }

Init ==
    /\ input \in OptionBags
    /\ options = input
    /\ fs \in FileSystems
    /\ debug \in BOOLEAN
    /\ pc = "parsed"
    /\ result = Pending
    /\ telemetry = <<>>
    /\ serviceCalls = <<>>
    /\ outcome = "none"

\* The framework calls validate() on the parsed arguments
Validate ==
    /\ pc = "parsed"
    /\ result' = validate(options, fs)
    /\ pc' = IF result' = Ok THEN "validated" ELSE "failed"
    /\ UNCHANGED <<input, options, fs, debug, telemetry, serviceCalls, outcome>>

----------------------------------------------------------------------------
(* The action *)

\* Command.getTelemetryProperties of the parent class
BaseTelemetryProperties(d) == [debug |-> d]

\* getTelemetryProperties() testing each option for truthiness instead of typeof
getTelemetryPropertiesTruthy(o, d) ==
    LET telemetryProps == BaseTelemetryProperties(d)
    IN  [p \in DOMAIN telemetryProps \cup PropNames |->
            IF p \in PropNames THEN Truthy(o[p]) ELSE telemetryProps[p]]

\* getTelemetryProperties: the parent's properties, then one flag per tracked name
getTelemetryProperties(o, d) ==
    LET telemetryProps == BaseTelemetryProperties(d)
    IN  [p \in DOMAIN telemetryProps \cup PropNames |->
            IF p \in PropNames THEN o[p] # Undefined ELSE telemetryProps[p]]

\* The framework starts the action of a validated invocation and tracks its telemetry
InitAction ==
    /\ pc = "validated"
    /\ telemetry' = <<getTelemetryProperties(options, debug)>>
    /\ pc' = "tracked"
    /\ UNCHANGED <<input, options, fs, debug, result, serviceCalls, outcome>>

\* mapTeamOptionProperties() that keeps an isPrivate the caller supplied
mapTeamOptionPropertiesKeepExplicit(o) ==
    IF o.isPrivate # Undefined THEN o ELSE [o EXCEPT !.isPrivate = o.visibility]

mapTeamOptionProperties(o) == [o EXCEPT !.isPrivate = o.visibility]

\* GroupUpdateService.updateGroup is handed the bag; the calls are recorded in order
updateGroup(calls, o) == Append(calls, o)

\* commandAction() that dispatches a second time
CommandActionTwice ==
    /\ pc = "tracked"
    /\ options' = mapTeamOptionProperties(options)
    /\ serviceCalls' = updateGroup(updateGroup(serviceCalls, options'), options')
    /\ pc' = "dispatched"
    /\ UNCHANGED <<input, fs, debug, result, telemetry, outcome>>

CommandAction ==
    /\ pc = "tracked"
    /\ options' = mapTeamOptionProperties(options)
    /\ serviceCalls' = updateGroup(serviceCalls, options')
    /\ pc' = "dispatched"
    /\ UNCHANGED <<input, fs, debug, result, telemetry, outcome>>

\* The service completes: it invokes cb or handleRejectedODataJsonPromise, once
ServiceComplete ==
    /\ pc = "dispatched"
    /\ \E r \in {"cb", "rejected"} : outcome' = r
    /\ pc' = "done"
    /\ UNCHANGED <<input, options, fs, debug, result, telemetry, serviceCalls>>

\* A validation failure is reported and the invocation ends
ValidationFailed ==
    /\ pc = "failed"
    /\ outcome' = "validation error"
    /\ pc' = "done"
    /\ UNCHANGED <<input, options, fs, debug, result, telemetry, serviceCalls>>

Next ==
    \/ Validate
    \/ InitAction
    \/ CommandAction
    \/ ServiceComplete
    \/ ValidationFailed

Spec == Init /\ [][Next]_vars

----------------------------------------------------------------------------
(* Properties *)

Validated == result # Pending

VisibilityValid(v) == ToLowerCase(v) \in {"private", "public"}

IsPrivateValid(v) == v \in {"true", "false"}

\* C1: a valid GUID in teamId, visibility and isPrivate absent or valid, logoPath
\* absent or an existing non-directory file: validate returns true and the
\* update is dispatched.
C1_ValidInputPasses ==
    ( /\ IsValidGuid(input.teamId)
      /\ input.visibility = Undefined \/ VisibilityValid(input.visibility)
      /\ input.isPrivate = Undefined \/ IsPrivateValid(input.isPrivate)
      /\ input.logoPath = Undefined \/ fs[Resolve(input.logoPath)] = "file" )
    => /\ Validated => result = Ok
       /\ pc = "done" => Len(serviceCalls) = 1

\* C2: when visibility is supplied, the isPrivate handed to updateGroup is the
\* supplied visibility string verbatim, also when isPrivate was supplied too.
C2_VisibilityCopiedVerbatim ==
    \A i \in DOMAIN serviceCalls :
        input.visibility # Undefined => serviceCalls[i].isPrivate = input.visibility

C2_Witness ==
    /\ Len(serviceCalls) = 1
    /\ input.visibility = "Private"
    /\ input.isPrivate = "false"
    /\ serviceCalls[1].isPrivate = "Private"

\* C3: when visibility is not supplied, the isPrivate handed to updateGroup is
\* the isPrivate the caller supplied.
C3_IsPrivateKeptWithoutVisibility ==
    \A i \in DOMAIN serviceCalls :
        input.visibility = Undefined => serviceCalls[i].isPrivate = input.isPrivate

\* C4: validate returns "Required parameter teamId missing" exactly when teamId
\* is missing.
C4_MissingExactlyWhenTeamIdMissing ==
    Validated => (result = Err(MissingMsg) <=> input.teamId = Undefined)

\* C5: with a valid teamId, every supplied visibility that is not Private or
\* Public in some casing is rejected with the visibility message, and every
\* casing of Private or Public is not.
C5_VisibilityRule ==
    (Validated /\ IsValidGuid(input.teamId) /\ input.visibility # Undefined)
    => IF VisibilityValid(input.visibility)
       THEN result # Err(VisibilityMsg(input.visibility))
       ELSE result = Err(VisibilityMsg(input.visibility))

\* C6: with a valid teamId and a valid or absent visibility, every supplied
\* isPrivate other than "true" and "false" is rejected with the boolean
\* message; an absent one, "true" and "false" are not.
C6_IsPrivateRule ==
    ( /\ Validated
      /\ IsValidGuid(input.teamId)
      /\ input.visibility = Undefined \/ VisibilityValid(input.visibility) )
    => IF input.isPrivate = Undefined \/ IsPrivateValid(input.isPrivate)
       THEN result.kind = "message" => result.text # BooleanMsg(input.isPrivate)
       ELSE result = Err(BooleanMsg(input.isPrivate))

\* The rules on the identifier, visibility and isPrivate as validate() evaluates them
EarlierRulesPass(o) ==
    /\ Truthy(o.id)
    /\ IsValidGuid(o.id)
    /\ ~(Truthy(o.visibility) /\ ~VisibilityValid(o.visibility))
    /\ o.isPrivate = Undefined \/ IsPrivateValid(o.isPrivate)

\* What the state of the resolved path decides
LogoVerdict(o, f) ==
    LET fullPath == Resolve(o.logoPath)
    IN  CASE f[fullPath] = "none" -> Err(NotFoundMsg(fullPath))
          [] f[fullPath] = "dir"  -> Err(DirectoryMsg(fullPath))
          [] f[fullPath] = "file" -> Ok

C8_TelemetryFlags ==
    \A i \in DOMAIN telemetry : \A p \in PropNames :
        /\ telemetry[i][p] \in BOOLEAN
        /\ telemetry[i][p] <=> input[p] # Undefined

C8_Witness ==
    /\ Len(telemetry) = 1
    /\ input.displayName = "" /\ telemetry[1].displayName
    /\ input.classification = "MBI" /\ telemetry[1].classification
    /\ input.description = Undefined /\ ~telemetry[1].description
    /\ input.visibility = "" /\ telemetry[1].visibility
    /\ input.isPrivate = Undefined /\ ~telemetry[1].isPrivate

\* C9: updateGroup is called at most once, only after validate returned true,
\* and never after validate returned a message.
C9_AtMostOneDispatch ==
    /\ Len(serviceCalls) <= 1
    /\ serviceCalls # <<>> => result = Ok
    /\ result.kind = "message" => serviceCalls = <<>>
    /\ pc = "done" => (Len(serviceCalls) = 1 <=> result = Ok)

C9_Witness ==
    /\ pc = "done"
    /\ outcome = "rejected"
    /\ result = Ok
    /\ Len(serviceCalls) = 1

\* The rules in the stated order: teamId missing, teamId not a GUID, visibility
\* invalid, isPrivate invalid, logoPath not found or a directory
StatedValidate(o, f) ==
    IF o.teamId = Undefined THEN Err(MissingMsg)
    ELSE IF ~IsValidGuid(o.teamId) THEN Err(GuidMsg(o.teamId))
    ELSE IF o.visibility # Undefined /\ ~VisibilityValid(o.visibility)
         THEN Err(VisibilityMsg(o.visibility))
    ELSE IF o.isPrivate # Undefined /\ ~IsPrivateValid(o.isPrivate)
         THEN Err(BooleanMsg(o.isPrivate))
    ELSE IF o.logoPath # Undefined THEN LogoVerdict(o, f)
    ELSE Ok

\* C10: validate returns the message of the lowest-numbered violated rule, in
\* the stated order, and true only when no rule is violated.
C10_RuleOrder ==
    Validated => result = StatedValidate(input, fs)

====
